---- MODULE Spec2Model ----
(***************************************************************************)
(* dirwatcher.py: a polling loop (main) that calls watch_dir, which lists  *)
(* a directory, reconciles the module-level dictionary `files` against the *)
(* listing and scans every tracked file with find_magic.  The filesystem   *)
(* and the operating system's signals are the environment.                 *)
(*                                                                         *)
(* Strings are sequences of one-character strings, so that str.endswith    *)
(* and the `in` substring test are computed and not assumed.  The Python   *)
(* dict `files` is a sequence of <<key, value>> pairs in insertion order.  *)
(***************************************************************************)
EXTENDS Integers, Sequences, FiniteSets, TLC

VARIABLES
    args,          \* parsed command line: [ext, magic, interval] (main, line 108)
    files,         \* the module-level dict `files` (line 16)
    exit_flag,     \* the module-level `exit_flag` (line 17)
    pc,            \* position of main: "loop", "watch_dir", "scan", "except", "sleep", "shutdown", "done"
    scan_pos,      \* position of the iterator of `for file in files` (line 40)
    exc,           \* the exception raised by the running cycle, NoExc if none
    events,        \* trace of the current cycle: the records logged and the find_magic calls made
    slept,         \* arguments of the time.sleep calls since the current cycle started
    received,      \* names of the signals logged by signal_handler
    path_state,    \* filesystem: what args.path is: "dir", "missing", "denied"
    dir_files,     \* filesystem: name -> lines, for the entries of the directory
    fs_ops,        \* number of filesystem changes made so far
    files_before,  \* history: `files` when the current cycle started
    dir_before,    \* history: dir_files when the current cycle started
    dropped,       \* history: names that watch_dir removed from `files` at some time
    relisted,      \* history: the latest two watch_dir calls both listed, and the same names
    cur_listing,   \* history: set of names the latest watch_dir call listed, NoListing if it could not
    intact,        \* history: tracked names whose file was only appended to since it was added
    changed,       \* history: the filesystem changed since the current cycle called os.listdir
    reported,      \* history: <<file, line>> of every match record logged while the file was tracked
    call           \* a direct call of find_magic: its arguments and its result

filesystem == <<path_state, dir_files, fs_ops>>

history == <<files_before, dir_before, dropped, relisted, cur_listing, intact, changed, reported>>

vars == <<args, files, exit_flag, pc, scan_pos, exc, events, slept, received,
          filesystem, history, call>>

---------------------------------------------------------------------------
(* Bounds of the model *)

MaxLines == 2      \* lines a file of the directory may hold
MaxFsOps == 3      \* filesystem changes in one run
MaxCallLines == 3  \* lines of the file handed to a direct find_magic call
MaxCallStart == 4  \* largest starting_line of a direct find_magic call

---------------------------------------------------------------------------
(* Strings *)

\* str.endswith(suffix)
EndsWith(s, suffix) ==
    /\ Len(suffix) <= Len(s)
    /\ SubSeq(s, Len(s) - Len(suffix) + 1, Len(s)) = suffix

\* `sub in s` for strings: sub occurs at some position of s, compared character by character
IsSubstring(sub, s) ==
    \E i \in 0..(Len(s) - Len(sub)) : SubSeq(s, i + 1, i + Len(sub)) = sub

\* the entry names the directory may hold: two that end with ".t" and one
\* that contains ".t" without ending with it
Names == { <<"a", ".", "t">>, <<"b", ".", "t">>, <<".", "t", "a">> }

\* the values of one line of a file: the magic text inside a longer line,
\* and the magic text in another case
LineValues == { <<"x", "h", "i">>, <<"H", "i">> }

Exts == { <<".", "t">> }
Magics == { <<"h", "i">> }
\* --interval in tenths of a second: 1.5
Intervals == { 15 }

\* int(float(x)) for x >= 0 given in tenths: truncation
IntOfFloat(tenths) == tenths \div 10

\* all sequences over S of length at most n
RECURSIVE SeqsUpTo(_, _)
SeqsUpTo(S, n) ==
    IF n = 0 THEN { <<>> }
    ELSE LET shorter == SeqsUpTo(S, n - 1)
         IN shorter \cup { Append(s, x) : s \in { t \in shorter : Len(t) = n - 1 }, x \in S }

\* the orders in which os.listdir may return the names of S
Listings(S) ==
    { s \in [1..Cardinality(S) -> S] : \A i, j \in 1..Cardinality(S) : s[i] = s[j] => i = j }

SeqToSet(s) == { s[i] : i \in DOMAIN s }

---------------------------------------------------------------------------
(* The dict `files` *)

Keys(d) == { d[i][1] : i \in DOMAIN d }

\* d[key] for a key of d
GetItem(d, key) == d[CHOOSE i \in DOMAIN d : d[i][1] = key][2]

\* d[key] = value: a new key goes last, a key of d keeps its place
SetItem(d, key, value) ==
    IF key \in Keys(d)
    THEN [i \in DOMAIN d |-> IF d[i][1] = key THEN <<key, value>> ELSE d[i]]
    ELSE Append(d, <<key, value>>)

\* line 39 left out: the key stays in d
DelItem_kept(d, key) == d

\* del d[key]
DelItem(d, key) == SelectSeq(d, LAMBDA e : e[1] # key)

\* list(d): the keys in insertion order
ListKeys(d) == [i \in DOMAIN d |-> d[i][1]]

---------------------------------------------------------------------------
(* Log records and exceptions *)

NoFile == <<>>

Ev(type, file, line) == [type |-> type, file |-> file, line |-> line]

\* how many records of `log` equal e
Count(log, e) == Cardinality({ i \in DOMAIN log : log[i] = e })

NoExc == [type |-> "none", errno |-> "none", at |-> "none"]

OSError(errno, at) == [type |-> "OSError", errno |-> errno, at |-> at]

TypeError(at) == [type |-> "TypeError", errno |-> "none", at |-> at]

NoListing == { <<"?">> }

---------------------------------------------------------------------------
(* find_magic, lines 47-63 *)

\* lines 57-62: the iterations of `for line_number, line in enumerate(file)`
\* from index i on; acc holds line_number and the records logged so far
RECURSIVE FindMagicLoop(_, _, _, _, _, _)
FindMagicLoop(filename, content, starting_line, magic_word, i, acc) ==
    IF i >= Len(content) THEN acc
    ELSE LET line == content[i + 1]
             hit == i >= starting_line /\ IsSubstring(magic_word, line)
         IN FindMagicLoop(filename, content, starting_line, magic_word, i + 1,
                [line_number |-> i,
                 events |-> IF hit THEN Append(acc.events, Ev("match", filename, i + 1))
                                   ELSE acc.events])

\* line 63 returning the larger of starting_line and line_number + 1
find_magic_keeps_offset(filename, content, starting_line, magic_word) ==
    LET r == FindMagicLoop(filename, content, starting_line, magic_word, 0,
                           [line_number |-> 0, events |-> <<>>])
    IN [ret |-> IF starting_line > r.line_number + 1 THEN starting_line
                                                     ELSE r.line_number + 1,
        events |-> r.events]

\* line_number = 0 (line 55), the loop, return line_number + 1 (line 63)
find_magic(filename, content, starting_line, magic_word) ==
    LET r == FindMagicLoop(filename, content, starting_line, magic_word, 0,
                           [line_number |-> 0, events |-> <<>>])
    IN [ret |-> r.line_number + 1, events |-> r.events]

---------------------------------------------------------------------------
(* watch_dir, lines 19-45 *)

\* line 33 with `args.ext in file` in place of file.endswith(args.ext)
ShouldAdd_substring(file, d, ext) == IsSubstring(ext, file) /\ file \notin Keys(d)

\* line 33 without `and file not in files`
ShouldAdd_no_membership(file, d, ext) == EndsWith(file, ext)

\* line 33: file.endswith(args.ext) and file not in files
ShouldAdd(file, d, ext) == EndsWith(file, ext) /\ file \notin Keys(d)

\* lines 32-35: for file in file_list, from position i on
RECURSIVE AddLoop(_, _, _, _)
AddLoop(acc, fl, i, ext) ==
    IF i > Len(fl) THEN acc
    ELSE IF ShouldAdd(fl[i], acc.files, ext)
         THEN AddLoop([files |-> SetItem(acc.files, fl[i], 0),
                       events |-> Append(acc.events, Ev("added", fl[i], 0))],
                      fl, i + 1, ext)
         ELSE AddLoop(acc, fl, i + 1, ext)

\* line 37 with `file in file_list`
ShouldRemove_inverted(file, fl) == file \in SeqToSet(fl)

\* line 37: file not in file_list
ShouldRemove(file, fl) == file \notin SeqToSet(fl)

\* lines 36-39: for file in list(files), from position i of the copied key list on
RECURSIVE RemoveLoop(_, _, _, _)
RemoveLoop(acc, keys, fl, i) ==
    IF i > Len(keys) THEN acc
    ELSE IF ShouldRemove(keys[i], fl)
         THEN RemoveLoop([files |-> DelItem(acc.files, keys[i]),
                          events |-> Append(acc.events, Ev("removed", keys[i], 0))],
                         keys, fl, i + 1)
         ELSE RemoveLoop(acc, keys, fl, i + 1)

\* lines 36-39 placed before lines 32-35: the remove loop runs first
Reconcile_remove_first(d, ev, fl, ext) ==
    LET removed == RemoveLoop([files |-> d, events |-> ev], ListKeys(d), fl, 1)
    IN AddLoop(removed, fl, 1, ext)

\* lines 32-35 only: the remove loop of lines 36-39 left out
Reconcile_add_only(d, ev, fl, ext) == AddLoop([files |-> d, events |-> ev], fl, 1, ext)

\* lines 32-39 on the listing fl
Reconcile(d, ev, fl, ext) ==
    LET added == AddLoop([files |-> d, events |-> ev], fl, 1, ext)
    IN RemoveLoop(added, ListKeys(added.files), fl, 1)

\* line 43, the argument files[files]: the subscript is the dict itself, and
\* a dict is unhashable, so the lookup raises TypeError whatever d holds
SubscriptByFiles(d) == [raised |-> TRUE, value |-> 0]

\* lines 28-39: the log record, os.listdir, the add loop and the remove loop.
\* os.listdir raises FileNotFoundError (ENOENT) for a missing path and
\* PermissionError (EACCES) for one that cannot be listed; nothing after the
\* listing reads the filesystem, so the two loops run in the same step.
watch_dir ==
    /\ pc = "watch_dir"
    /\ changed' = FALSE
    /\ scan_pos' = 1
    /\ IF path_state # "dir"
       THEN /\ exc' = OSError(IF path_state = "missing" THEN "ENOENT" ELSE "EACCES", "listdir")
            /\ events' = Append(events, Ev("watching", NoFile, 0))
            /\ cur_listing' = NoListing
            /\ relisted' = FALSE
            /\ pc' = "except"
            /\ UNCHANGED <<files, intact, reported, dropped>>
       ELSE \E fl \in Listings(DOMAIN dir_files) :
                LET r == Reconcile(files, Append(events, Ev("watching", NoFile, 0)),
                                   fl, args.ext)
                IN /\ files' = r.files
                   /\ events' = r.events
                   /\ cur_listing' = SeqToSet(fl)
                   /\ relisted' = (cur_listing = SeqToSet(fl))
                   /\ intact' = (intact \cap Keys(r.files)) \cup (Keys(r.files) \ Keys(files))
                   /\ dropped' = dropped \cup (Keys(files) \ Keys(r.files))
                   /\ reported' = SelectSeq(reported, LAMBDA m : m[1] \in Keys(r.files))
                   /\ pc' = "scan"
                   /\ UNCHANGED exc
    /\ UNCHANGED <<args, exit_flag, slept, received, filesystem, files_before, dir_before, call>>

\* open(filename) (line 56) succeeds
Openable(file) == path_state = "dir" /\ file \in DOMAIN dir_files

\* the errno of the OSError that open(filename) raises when it fails
OpenErrno(file) == IF path_state = "denied" THEN "EACCES" ELSE "ENOENT"

\* lines 40-45: one iteration of `for file in files`, or its end.  The
\* arguments of the find_magic call are evaluated first (os.path.join, then
\* files[files]); open (line 56) raises FileNotFoundError (ENOENT) when the
\* file or the directory is gone and PermissionError (EACCES) when the
\* directory is denied.
scan ==
    /\ pc = "scan"
    /\ IF scan_pos > Len(files)
       THEN /\ pc' = "sleep"
            /\ UNCHANGED <<files, scan_pos, exc, events, reported>>
       ELSE LET file == files[scan_pos][1]
                starting_line == SubscriptByFiles(files)
            IN IF starting_line.raised
               THEN /\ exc' = TypeError("subscript")
                    /\ pc' = "except"
                    /\ UNCHANGED <<files, scan_pos, events, reported>>
               ELSE IF ~Openable(file)
               THEN /\ exc' = OSError(OpenErrno(file), "open")
                    /\ events' = Append(events, Ev("find_magic", file, starting_line.value))
                    /\ pc' = "except"
                    /\ UNCHANGED <<files, scan_pos, reported>>
               ELSE LET r == find_magic(file, dir_files[file], starting_line.value, args.magic)
                    IN /\ files' = SetItem(files, file, r.ret)
                       /\ events' = Append(events, Ev("find_magic", file, starting_line.value))
                                        \o r.events
                       /\ reported' = reported \o [i \in DOMAIN r.events |->
                                                     <<file, r.events[i].line>>]
                       /\ scan_pos' = scan_pos + 1
                       /\ UNCHANGED <<pc, exc>>
    /\ UNCHANGED <<args, exit_flag, slept, received, filesystem, files_before, dir_before,
                   dropped, relisted, cur_listing, intact, changed, call>>

---------------------------------------------------------------------------
(* main, lines 91-145 *)

GracePeriod == 2

\* lines 119-128: the record logged for the exception e
ExceptRecord(e) ==
    IF e.type = "OSError"
    THEN IF e.errno = "ENOENT" THEN Ev("directory not found", NoFile, 0)
                               ELSE Ev("oserror", NoFile, 0)
    ELSE Ev("unhandled exception", NoFile, 0)

\* lines 122-124 without the time.sleep(2)
ExceptSleeps_no_grace(e) == <<>>

\* line 124 moved out of the errno test: time.sleep(2) for every OSError
ExceptSleeps_any_oserror(e) == IF e.type = "OSError" THEN <<GracePeriod>> ELSE <<>>

\* line 124: time.sleep(2), only in the ENOENT branch of the OSError handler
ExceptSleeps(e) ==
    IF e.type = "OSError" /\ e.errno = "ENOENT" THEN <<GracePeriod>> ELSE <<>>

\* line 115 as `while True`: the flag is never read
loop_ignores_flag ==
    /\ pc = "loop"
    /\ pc' = "watch_dir"
    /\ exc' = NoExc
    /\ events' = <<>>
    /\ slept' = <<>>
    /\ files_before' = files
    /\ dir_before' = dir_files
    /\ UNCHANGED <<args, files, exit_flag, scan_pos, received, filesystem, dropped, relisted,
                   cur_listing, intact, changed, reported, call>>

\* line 115: while not exit_flag
loop ==
    /\ pc = "loop"
    /\ IF exit_flag
       THEN /\ pc' = "shutdown"
            /\ UNCHANGED <<exc, events, slept, files_before, dir_before>>
       ELSE /\ pc' = "watch_dir"
            /\ exc' = NoExc
            /\ events' = <<>>
            /\ slept' = <<>>
            /\ files_before' = files
            /\ dir_before' = dir_files
    /\ UNCHANGED <<args, files, exit_flag, scan_pos, received, filesystem, dropped, relisted,
                   cur_listing, intact, changed, reported, call>>

\* lines 119-126 alone, without the `except Exception` clause of lines
\* 127-128: any other exception ends main with a traceback
except_only_oserror ==
    /\ pc = "except"
    /\ IF exc.type = "OSError"
       THEN /\ events' = Append(events, ExceptRecord(exc))
            /\ slept' = slept \o ExceptSleeps(exc)
            /\ pc' = "sleep"
       ELSE /\ pc' = "done"
            /\ UNCHANGED <<events, slept>>
    /\ UNCHANGED <<args, files, exit_flag, scan_pos, exc, received, filesystem, history, call>>

\* lines 119-128 with the watch-list put back as it was when the cycle began
except_rolls_back ==
    /\ pc = "except"
    /\ events' = Append(events, ExceptRecord(exc))
    /\ slept' = slept \o ExceptSleeps(exc)
    /\ files' = files_before
    /\ pc' = "sleep"
    /\ UNCHANGED <<args, exit_flag, scan_pos, exc, received, filesystem, history, call>>

\* lines 119-128: the except clauses
except ==
    /\ pc = "except"
    /\ events' = Append(events, ExceptRecord(exc))
    /\ slept' = slept \o ExceptSleeps(exc)
    /\ pc' = "sleep"
    /\ UNCHANGED <<args, files, exit_flag, scan_pos, exc, received, filesystem, history, call>>

\* line 131: time.sleep(int(float(args.interval)))
sleep ==
    /\ pc = "sleep"
    /\ slept' = Append(slept, IntOfFloat(args.interval))
    /\ pc' = "loop"
    /\ UNCHANGED <<args, files, exit_flag, scan_pos, exc, events, received, filesystem,
                   history, call>>

\* lines 136-145: the closing banner and logging.shutdown()
shutdown ==
    /\ pc = "shutdown"
    /\ events' = Append(events, Ev("stopped", NoFile, 0))
    /\ pc' = "done"
    /\ UNCHANGED <<args, files, exit_flag, scan_pos, exc, slept, received, filesystem,
                   history, call>>

\* lines 65-78, installed for SIGINT and SIGTERM (lines 111-112): runs between
\* any two steps of main while the process lives
signal_handler(sig_num) ==
    /\ pc # "done"
    /\ received' = received \cup {sig_num}
    /\ exit_flag' = TRUE
    /\ UNCHANGED <<args, files, pc, scan_pos, exc, events, slept, filesystem, history, call>>

---------------------------------------------------------------------------
(* The filesystem: what other processes do to args.path *)

\* A change made while main handles an exception, sleeps or tests exit_flag is
\* seen by the program at its next os.listdir at the earliest, so the model
\* takes it when main is about to call os.listdir or inside the scan loop.
FsStep ==
    /\ pc \in {"watch_dir", "scan"}
    /\ fs_ops < MaxFsOps
    /\ fs_ops' = fs_ops + 1
    /\ changed' = TRUE
    /\ UNCHANGED <<args, files, exit_flag, pc, scan_pos, exc, events, slept, received,
                   files_before, dir_before, dropped, relisted, cur_listing, reported, call>>

\* a new, empty file appears
FsCreate ==
    /\ FsStep
    /\ path_state = "dir"
    /\ \E n \in Names \ DOMAIN dir_files :
           dir_files' = [m \in DOMAIN dir_files \cup {n} |-> IF m = n THEN <<>> ELSE dir_files[m]]
    /\ UNCHANGED <<path_state, intact>>

\* lines are appended to a file
FsAppend ==
    /\ FsStep
    /\ path_state = "dir"
    /\ \E n \in DOMAIN dir_files, c \in SeqsUpTo(LineValues, MaxLines) \ { <<>> } :
           /\ Len(dir_files[n]) + Len(c) <= MaxLines
           /\ dir_files' = [dir_files EXCEPT ![n] = @ \o c]
    /\ UNCHANGED <<path_state, intact>>

\* a file is cut down to its first k lines
FsTruncate ==
    /\ FsStep
    /\ path_state = "dir"
    /\ \E n \in DOMAIN dir_files :
           \E k \in 0..(Len(dir_files[n]) - 1) :
               /\ dir_files' = [dir_files EXCEPT ![n] = SubSeq(@, 1, k)]
               /\ intact' = intact \ {n}
    /\ UNCHANGED path_state

\* a file is deleted
FsDelete ==
    /\ FsStep
    /\ path_state = "dir"
    /\ \E n \in DOMAIN dir_files :
           /\ dir_files' = [m \in DOMAIN dir_files \ {n} |-> dir_files[m]]
           /\ intact' = intact \ {n}
    /\ UNCHANGED path_state

\* a file is renamed to a name not in use
FsRename ==
    /\ FsStep
    /\ path_state = "dir"
    /\ \E n \in DOMAIN dir_files, m \in Names \ DOMAIN dir_files :
           /\ dir_files' = [x \in (DOMAIN dir_files \ {n}) \cup {m} |->
                               IF x = m THEN dir_files[n] ELSE dir_files[x]]
           /\ intact' = intact \ {n}
    /\ UNCHANGED path_state

\* the watched path disappears, stops being listable, or is back
FsPath ==
    /\ FsStep
    /\ \E s \in {"dir", "missing", "denied"} \ {path_state} : path_state' = s
    /\ UNCHANGED <<dir_files, intact>>

---------------------------------------------------------------------------
(* The program *)

NoCall == [state |-> "none", content |-> <<>>, starting_line |-> 0, ret |-> 0, events |-> <<>>]

\* the state when main enters its loop (lines 93-112 done; files and exit_flag
\* as lines 16-17 set them), with no find_magic call of its own
InitMain ==
    /\ args \in [ext : Exts, magic : Magics, interval : Intervals]
    /\ files = <<>>
    /\ exit_flag = FALSE
    /\ pc = "loop"
    /\ scan_pos = 1
    /\ exc = NoExc
    /\ events = <<>>
    /\ slept = <<>>
    /\ received = {}
    /\ path_state = "dir"
    /\ dir_files = <<>>
    /\ fs_ops = 0
    /\ files_before = <<>>
    /\ dir_before = <<>>
    /\ dropped = {}
    /\ relisted = FALSE
    /\ cur_listing = NoListing
    /\ intact = {}
    /\ changed = FALSE
    /\ reported = <<>>

\* the program started on an existing, empty directory
Init ==
    /\ InitMain
    /\ call = NoCall

Next ==
    \/ loop
    \/ watch_dir
    \/ scan
    \/ except
    \/ sleep
    \/ shutdown
    \/ \E sig_num \in {"SIGINT", "SIGTERM"} : signal_handler(sig_num)
    \/ FsCreate
    \/ FsAppend
    \/ FsTruncate
    \/ FsDelete
    \/ FsRename
    \/ FsPath

Spec == Init /\ [][Next]_vars

\* the steps of main's thread
main_step == loop \/ watch_dir \/ scan \/ except \/ sleep \/ shutdown

\* main's thread keeps running: every call it makes (os.listdir, open,
\* time.sleep, logging) returns.  Signals and filesystem changes may or may
\* not come.
FairSpec == Spec /\ WF_vars(main_step)

---------------------------------------------------------------------------
(* find_magic called on its own, on every file and starting line in the bounds *)

InitCall ==
    /\ InitMain
    /\ \E c \in SeqsUpTo(LineValues, MaxCallLines), n \in 0..MaxCallStart :
           call = [state |-> "calling", content |-> c, starting_line |-> n,
                   ret |-> 0, events |-> <<>>]

call_find_magic ==
    /\ call.state = "calling"
    /\ LET r == find_magic(<<"a", ".", "t">>, call.content, call.starting_line, args.magic)
       IN call' = [call EXCEPT !.state = "returned", !.ret = r.ret, !.events = r.events]
    /\ UNCHANGED <<args, files, exit_flag, pc, scan_pos, exc, events, slept, received,
                   filesystem, history>>

NextCall == call_find_magic

SpecCall == InitCall /\ [][NextCall]_vars

---------------------------------------------------------------------------
(* Properties *)

\* the running cycle has listed the directory (watch_dir got past line 31)
Listed == pc \in {"scan", "except", "sleep"} /\ cur_listing # NoListing

\* the running cycle is over (watch_dir returned, or its exception was handled)
\* and nothing changed in the directory since the cycle listed it
QuietCycleEnd == pc = "sleep" /\ cur_listing # NoListing /\ ~changed

\* the line numbers of the match records of file f in the current cycle
MatchLines(f) ==
    { events[i].line : i \in { j \in DOMAIN events :
                                 events[j].type = "match" /\ events[j].file = f } }

\* the starting lines of the find_magic calls for file f in the current cycle
ScanStarts(f) ==
    { events[i].line : i \in { j \in DOMAIN events :
                                 events[j].type = "find_magic" /\ events[j].file = f } }

\* the 1-based numbers of the lines of content c that contain the magic text
MagicLines(c) == { i \in 1..Len(c) : IsSubstring(args.magic, c[i]) }

\* C1: a cycle that starts with an empty watch-list and lists a file whose
\* name ends with the extension ends with the file in the watch-list at its
\* line count, one "added" record for it, and one match record for each of
\* its lines that contain the magic text, with the 1-based line number.
C1_FirstCycleAddsAndScans ==
    (QuietCycleEnd /\ files_before = <<>>) =>
        \A f \in cur_listing :
            EndsWith(f, args.ext) =>
                /\ f \in Keys(files)
                /\ GetItem(files, f) = Len(dir_files[f])
                /\ Count(events, Ev("added", f, 0)) = 1
                /\ MatchLines(f) = MagicLines(dir_files[f])
                /\ \A i \in MagicLines(dir_files[f]) : Count(events, Ev("match", f, i)) = 1

\* C2: for a file that stays tracked and is only appended to, no line is
\* reported by more than one match record over the run, and when a cycle that
\* listed the file has ended, every line of it that contains the magic text
\* has been reported by exactly one.
C2_EachMagicLineReportedOnce ==
    \A f \in intact :
        /\ \A i \in DOMAIN reported :
               reported[i][1] = f => Count(reported, reported[i]) = 1
        /\ (QuietCycleEnd /\ f \in cur_listing) =>
               \A i \in MagicLines(dir_files[f]) : Count(reported, <<f, i>>) = 1

\* C3: a tracked file whose stored offset n was its line count when the cycle
\* started, and to which k >= 1 lines were then appended with the magic text
\* in exactly one of them, the j-th: the cycle logs exactly one match record
\* for the file, at line n + j, and ends with the stored offset n + k.
C3_AppendRoundTrip ==
    QuietCycleEnd =>
        \A f \in Keys(files_before) \cap intact \cap DOMAIN dir_before \cap DOMAIN dir_files :
            LET n == GetItem(files_before, f)
                c == dir_files[f]
                k == Len(c) - n
                magic_at == { j \in 1..k : IsSubstring(args.magic, c[n + j]) }
            IN (/\ n = Len(dir_before[f])
                /\ k >= 1
                /\ SubSeq(c, 1, n) = dir_before[f]
                /\ Cardinality(magic_at) = 1) =>
                   /\ GetItem(files, f) = n + k
                   /\ MatchLines(f) = { n + j : j \in magic_at }
                   /\ \A j \in magic_at : Count(events, Ev("match", f, n + j)) = 1

\* C4: find_magic returns the number of lines of the file, whatever the
\* starting line; for an empty file it returns 0 and logs no match record.
C4_ReturnsLineCount ==
    call.state = "returned" =>
        /\ call.ret = Len(call.content)
        /\ call.content = <<>> => call.events = <<>>

\* C5: every key of the watch-list ends with the configured extension.
C5_KeysEndWithExt == \A f \in Keys(files) : EndsWith(f, args.ext)

\* a cycle has listed a directory that holds a name that does not end with the
\* extension next to one that does, and tracks a file
C5_Witness ==
    /\ pc = "sleep"
    /\ cur_listing # NoListing
    /\ \E f \in cur_listing : ~EndsWith(f, args.ext)
    /\ Keys(files) # {}

\* C6: when two watch_dir calls in succession list the same names, the second
\* logs no "added" and no "removed" record and leaves the set of keys of the
\* watch-list as it was.
C6_SecondRunIdempotent ==
    (pc \in {"scan", "except", "sleep"} /\ relisted) =>
        /\ \A i \in DOMAIN events : events[i].type \notin {"added", "removed"}
        /\ Keys(files) = Keys(files_before)

\* a second call in succession has listed the same names, with a file tracked
C6_Witness == pc = "sleep" /\ relisted /\ Keys(files) # {}

\* C7: a file of the watch-list that is absent from the listing of a cycle
\* gets exactly one "removed" record in that cycle, is out of the watch-list
\* from the remove loop to the end of the cycle, and find_magic is not called
\* for it in that cycle.
C7_AbsentFileRemoved ==
    Listed =>
        \A f \in Keys(files_before) \ cur_listing :
            /\ Count(events, Ev("removed", f, 0)) = 1
            /\ f \notin Keys(files)
            /\ ScanStarts(f) = {}

\* a cycle that found a tracked file absent from its listing has ended
C7_Witness ==
    /\ pc = "sleep"
    /\ cur_listing # NoListing
    /\ Keys(files_before) \ cur_listing # {}

\* C8: a name that was removed from the watch-list in an earlier cycle and is
\* listed again is inserted anew, with one "added" record, and its scan in
\* that cycle is one find_magic call that starts at line 0.
C8_ReaddedScansFromZero ==
    QuietCycleEnd =>
        \A f \in (dropped \cap cur_listing) \ Keys(files_before) :
            EndsWith(f, args.ext) =>
                /\ f \in Keys(files)
                /\ Count(events, Ev("added", f, 0)) = 1
                /\ Count(events, Ev("find_magic", f, 0)) = 1
                /\ ScanStarts(f) = {0}

\* C9: for a file tracked through a cycle and only appended to, the stored
\* offset at the end of the cycle is not below the one at its start, and when
\* no line was appended since the cycle started it is the file's line count.
C9_OffsetMonotoneThenStable ==
    QuietCycleEnd =>
        \A f \in Keys(files_before) \cap intact \cap DOMAIN dir_files :
            /\ GetItem(files, f) >= GetItem(files_before, f)
            /\ (f \in DOMAIN dir_before /\ dir_before[f] = dir_files[f]) =>
                   GetItem(files, f) = Len(dir_files[f])

\* C10: a cycle whose os.listdir finds the path missing leaves the watch-list
\* (keys and offsets) as it was when the cycle started, logs one
\* directory-not-found record, and sleeps the grace period and then the
\* configured interval before the loop tests exit_flag again.
C10_MissingPathCycle ==
    exc = OSError("ENOENT", "listdir") =>
        /\ files = files_before
        /\ pc = "sleep" =>
               /\ Count(events, Ev("directory not found", NoFile, 0)) = 1
               /\ slept = <<GracePeriod>>
        /\ pc = "loop" =>
               /\ Count(events, Ev("directory not found", NoFile, 0)) = 1
               /\ slept = <<GracePeriod, IntOfFloat(args.interval)>>

\* a cycle on a missing path is over, sleeps included, with a file tracked
C10_Witness == pc = "loop" /\ exc = OSError("ENOENT", "listdir") /\ files # <<>>

ErrorRecords == {"directory not found", "oserror", "unhandled exception"}

\* C11: an exception raised in a cycle stays in the loop: the handler logs
\* one error record and goes on to the sleep of line 131, the sleep goes back
\* to the test of exit_flag, the test starts another cycle when the flag is
\* false, and main leaves the loop only from that test, with the flag true.
C11_ErrorsStayInLoop ==
    [][ /\ (pc = "except" /\ pc' # pc) =>
               /\ pc' = "sleep"
               /\ Len(events') = Len(events) + 1
               /\ events'[Len(events')].type \in ErrorRecords
        /\ (pc = "sleep" /\ pc' # pc) =>
               /\ pc' = "loop"
               /\ slept' = Append(slept, IntOfFloat(args.interval))
        /\ (pc = "loop" /\ pc' # pc) =>
               pc' = IF exit_flag THEN "shutdown" ELSE "watch_dir"
        /\ (pc \notin {"shutdown", "done"} /\ pc' \in {"shutdown", "done"}) =>
               (pc = "loop" /\ exit_flag)
      ]_vars

\* a cycle failed, its error was logged and slept on, and the loop is at its
\* test with the flag false
C11_Witness ==
    /\ pc = "loop"
    /\ ~exit_flag
    /\ exc # NoExc
    /\ events # <<>> /\ events[Len(events)].type \in ErrorRecords
    /\ slept # <<>>

\* C12: exit_flag, once set by a signal, is never reset; from then on main
\* eventually leaves its loop, logs the closing banner and returns; and once
\* the loop has read the flag as true no cycle begins.
C12_ShutdownLiveness ==
    /\ exit_flag ~> (pc = "done")
    /\ [][exit_flag => exit_flag']_vars
    /\ [][(pc \in {"shutdown", "done"}) => (pc' \in {"shutdown", "done"})]_vars
    /\ [](pc = "done" => events[Len(events)].type = "stopped")

\* main has returned after a signal, its last record the closing banner
C12_Witness ==
    /\ pc = "done"
    /\ exit_flag
    /\ received # {}
    /\ events[Len(events)].type = "stopped"

\* C13: a signal that sets exit_flag while a cycle is in progress does not cut
\* the cycle short: when the cycle is over, with the flag already true and the
\* directory as it was listed, every file of the watch-list has been scanned
\* by a find_magic call of this cycle.
C13_SignalledCycleScansAll ==
    (QuietCycleEnd /\ exit_flag) =>
        \A f \in Keys(files) : ScanStarts(f) # {}

\* the running cycle listed the directory and is over: watch_dir returned or
\* its exception was handled
ListedCycleOver == pc \in {"except", "sleep"} /\ cur_listing # NoListing

\* the offset file f has when the add loop of the running cycle is done
OffsetAtListing(f) == IF f \in Keys(files_before) THEN GetItem(files_before, f) ELSE 0

\* C14: a file that was in the listing of a cycle, is tracked, and cannot be
\* opened in the scan phase of that cycle is still in the watch-list when the
\* cycle is over, with the offset it had before the scan and with no
\* "removed" record; and a key leaves the watch-list only in the step of
\* watch_dir whose listing does not hold it.
C14_UnopenableFileKept ==
    /\ [](ListedCycleOver =>
            \A f \in cur_listing :
                (EndsWith(f, args.ext) /\ ~Openable(f)) =>
                    /\ f \in Keys(files)
                    /\ GetItem(files, f) = OffsetAtListing(f)
                    /\ Count(events, Ev("removed", f, 0)) = 0)
    /\ [][\A f \in Keys(files) \ Keys(files') :
              pc = "watch_dir" /\ cur_listing' # NoListing /\ f \notin cur_listing']_vars

\* a cycle is over in which a file tracked since an earlier cycle was listed
\* and was gone, or its directory denied, when the scan loop ran
C14_Witness ==
    /\ pc = "sleep"
    /\ cur_listing # NoListing
    /\ exc # NoExc
    /\ \E f \in cur_listing \cap Keys(files_before) : f \in Keys(files) /\ ~Openable(f)

\* the number of find_magic calls for file f in the current cycle
ScanCalls(f) ==
    Cardinality({ i \in DOMAIN events :
                    events[i].type = "find_magic" /\ events[i].file = f })

\* C15: when a cycle whose listing succeeded is over, find_magic has been
\* called exactly once for every key of the watch-list, with the offset the
\* key had after the add and remove loops, whether or not another file's scan
\* failed.
C15_EveryKeyScannedOnce ==
    (pc = "sleep" /\ cur_listing # NoListing) =>
        \A f \in Keys(files) :
            /\ ScanCalls(f) = 1
            /\ ScanStarts(f) = {OffsetAtListing(f)}

\* a cycle has run and its handler, if any, is done; the filesystem is as it
\* was when the cycle called os.listdir or ended its scan loop
CycleHandled == pc \in {"sleep", "loop"} /\ events # <<>>

\* the watched path did not exist when the cycle called os.listdir
MissingAtListing == cur_listing = NoListing /\ path_state = "missing"

\* the number of records of the given type in the current cycle
CountType(type) == Cardinality({ i \in DOMAIN events : events[i].type = type })

\* C16: a cycle logs "directory not found" and sleeps the grace period if and
\* only if the path was missing when it listed the directory.  A cycle that
\* fails otherwise logs one record of another kind (an OSError record when the
\* directory cannot be listed, an unhandled-exception record when the failure
\* comes after the listing) and sleeps the interval only; a cycle that does
\* not fail logs no error record.
C16_GraceOnlyForMissingPath ==
    CycleHandled =>
        /\ CountType("directory not found") = IF MissingAtListing THEN 1 ELSE 0
        /\ slept = (IF MissingAtListing THEN <<GracePeriod>> ELSE <<>>)
                       \o (IF pc = "loop" THEN <<IntOfFloat(args.interval)>> ELSE <<>>)
        /\ (cur_listing = NoListing /\ ~MissingAtListing) =>
               /\ CountType("oserror") = 1
               /\ CountType("unhandled exception") = 0
        /\ (cur_listing # NoListing /\ exc # NoExc) =>
               /\ CountType("oserror") + CountType("unhandled exception") = 1
        /\ exc = NoExc =>
               \A i \in DOMAIN events : events[i].type \notin ErrorRecords

\* a cycle on a directory that exists and cannot be listed is over, its
\* sleep included
C16_Witness ==
    /\ pc = "loop"
    /\ exc = OSError("EACCES", "listdir")
    /\ CountType("oserror") = 1
    /\ slept = <<IntOfFloat(args.interval)>>

\* C17: in the records of a cycle every "added" record comes before every
\* "removed" record and both come before every find_magic call and match
\* record; they are written only by the step that lists the directory, which
\* hands over to the scan loop.  A matching name that is listed and was not
\* tracked has one "added" record and is tracked at offset 0 when the scan
\* loop starts, and a tracked name that is no longer listed has one "removed"
\* record and is not tracked, so a rename shows as one of each and the new
\* name never gets the old name's offset.
C17_AddRemoveScanOrder ==
    /\ [](Listed =>
            /\ \A i, j \in DOMAIN events :
                   /\ (events[i].type = "added" /\ events[j].type = "removed") => i < j
                   /\ (/\ events[i].type \in {"added", "removed"}
                       /\ events[j].type \in {"find_magic", "match"}) => i < j
            /\ \A new \in cur_listing \ Keys(files_before) :
                   EndsWith(new, args.ext) =>
                       /\ Count(events, Ev("added", new, 0)) = 1
                       /\ Count(events, Ev("removed", new, 0)) = 0
                       /\ new \in Keys(files)
                       /\ (pc = "scan" /\ scan_pos = 1) => GetItem(files, new) = 0
            /\ \A old \in Keys(files_before) \ cur_listing :
                   /\ Count(events, Ev("removed", old, 0)) = 1
                   /\ Count(events, Ev("added", old, 0)) = 0
                   /\ old \notin Keys(files))
    /\ [][(CountType("added")' > CountType("added")
              \/ CountType("removed")' > CountType("removed"))
             => (pc = "watch_dir" /\ pc' = "scan" /\ scan_pos' = 1)]_vars

\* a tracked file was renamed to another matching name after the cycle
\* started, and the cycle has listed the directory
C17_Witness ==
    /\ Listed
    /\ \E old \in Keys(files_before) \cap DOMAIN dir_before :
       \E new \in cur_listing \ DOMAIN dir_before :
           /\ old \notin cur_listing
           /\ EndsWith(new, args.ext)
           /\ Count(events, Ev("added", new, 0)) = 1
           /\ Count(events, Ev("removed", old, 0)) = 1

\* find_magic has returned from a call whose starting line is above the
\* number of lines of the file: the file shrank below the offset passed
TruncatedCall == call.state = "returned" /\ Len(call.content) < call.starting_line

C19_KeysAreMatchingListing ==
    Listed => Keys(files) = { f \in cur_listing : EndsWith(f, args.ext) }

\* a cycle whose scan loop raised is over; it started with a non-empty
\* watch-list, listed a name that does not match, and changed the keys
C19_Witness ==
    /\ pc = "sleep"
    /\ cur_listing # NoListing
    /\ exc.at = "subscript"
    /\ files_before # <<>>
    /\ Keys(files) # Keys(files_before)
    /\ \E f \in cur_listing : ~EndsWith(f, args.ext)

\* the scan loop of the running cycle raised
ScanRaised == pc \in {"except", "sleep"} /\ exc.at \in {"subscript", "open"}

\* C20: when the scan loop of a cycle raised, every name the cycle logged as
\* added is a key of the watch-list and no name it logged as removed is one,
\* and every entry from the one whose scan raised onwards has the offset it
\* had when the scan loop started; and the offset of a key changes only in a
\* step of the scan loop, to the value find_magic returns for that file.
C20_NoRollbackOffsetsKept ==
    /\ [](ScanRaised =>
            /\ \A i \in DOMAIN events :
                   /\ events[i].type = "added" => events[i].file \in Keys(files)
                   /\ events[i].type = "removed" => events[i].file \notin Keys(files)
            /\ \A i \in scan_pos..Len(files) :
                   files[i][2] = OffsetAtListing(files[i][1]))
    /\ [][\A f \in Keys(files) \cap Keys(files') :
              GetItem(files', f) # GetItem(files, f) =>
                  /\ pc = "scan"
                  /\ Openable(f)
                  /\ GetItem(files', f)
                         = find_magic(f, dir_files[f], GetItem(files, f), args.magic).ret]_vars

\* the scan loop raised in a cycle that had both inserted a key and deleted
\* one, and main has handled the exception
C20_Witness ==
    /\ pc = "sleep"
    /\ exc = TypeError("subscript")
    /\ CountType("added") >= 1
    /\ CountType("removed") >= 1
    /\ CountType("unhandled exception") = 1
====
